---- MODULE Spec2Model ----
(***************************************************************************)
(* State reconciler of the suins offers indexer                           *)
(* (src/src/handlers/offers_handler.rs).  The Offer Store is the `offers` *)
(* table; `commit` applies a batch of event tuples to it inside one       *)
(* database transaction.                                                  *)
(***************************************************************************)
EXTENDS Integers, Sequences, FiniteSets, TLC

VARIABLES
    offers,   \* committed rows of the offers table, in insertion (id) order
    tx,       \* rows as seen inside the open transaction of commit
    pc,       \* "idle" (no commit running) or "in_tx" (inside conn.transaction)
    len,      \* values.len() of the batch being committed
    pos,      \* number of tuples of the batch the loop has applied
    ev,       \* <<the tuple the loop applied last>> (NoValue before the first)
    prev,     \* the rows of the transaction before the loop applied ev
    result,   \* what the last finished commit returned
    values,   \* the batch, when it is fixed in advance (scripted runs)
    round,    \* number of commits of `values` that returned Ok (scripted runs)
    n,        \* number of tuples handed to commit so far, over all batches
    stream,   \* the checkpoints the ingestion delivers, in sequence-number order
    processed,\* per checkpoint of the stream, what `process` (of the handler the
              \* specification runs) made of it
    inflight, \* the checkpoints whose tuples make up the batch being written
    log       \* the checkpoints whose tuples are committed, in commit order

\* the part of the state that belongs to the pipeline around the handler
pvars == <<stream, processed, inflight, log>>

vars == <<offers, tx, pc, len, pos, ev, prev, result, values, round, n, pvars>>

(***************************************************************************)
(* Bounds and input sets                                                   *)
(***************************************************************************)
MaxEvents == 3
MaxBatch == 2
MaxRounds == 2

\* domain names arrive as bytes: "d1" and "d2"
DomainNames == { <<100, 49>>, <<100, 50>> }
Addresses == { "0xb1", "0xb2" }
OwnerAddresses == { "0xo1" }
Amounts == { 100, 150 }
\* (created_at in ms, digest of the emitting transaction)
Stamps == { [created_at |-> 1000, tx_digest |-> "txA"],
            [created_at |-> 2000, tx_digest |-> "txB"] }
\* the (domain name, buyer) pairs of the events: two buyers on one domain, one
\* buyer on two domains
Pairs == { <<d, b>> \in DomainNames \X Addresses : d = <<100, 49>> \/ b = "0xb1" }

\* Option<String> None (owner), and Option<i32> as a sequence of at most one id
None == "None"
NoId == <<>>
Some(id) == <<id>>
\* no tuple applied yet in this batch
NoValue == <<>>

Terminal == { "Cancelled", "Accepted", "Declined", "AcceptedCountered" }

OfferStatus ==
    { "Placed", "Cancelled", "Accepted", "Declined", "Countered", "AcceptedCountered" }

(***************************************************************************)
(* Events and tuples                                                       *)
(***************************************************************************)
OfferPlacedEvent ==
    { [kind |-> "Placed", domain_name |-> p[1], address |-> p[2], value |-> v] :
        p \in Pairs, v \in Amounts }

OfferCancelledEvent ==
    { [kind |-> "Cancelled", domain_name |-> p[1], address |-> p[2], value |-> v] :
        p \in Pairs, v \in Amounts }

OfferAcceptedEvent ==
    { [kind |-> "Accepted", domain_name |-> p[1], owner |-> o, buyer |-> p[2],
       value |-> v] : p \in Pairs, o \in OwnerAddresses, v \in Amounts }

OfferDeclinedEvent ==
    { [kind |-> "Declined", domain_name |-> p[1], owner |-> o, buyer |-> p[2],
       value |-> v] : p \in Pairs, o \in OwnerAddresses, v \in Amounts }

MakeCounterOfferEvent ==
    { [kind |-> "MakeCounterOffer", domain_name |-> p[1], owner |-> o, buyer |-> p[2],
       value |-> v] : p \in Pairs, o \in OwnerAddresses, v \in Amounts }

AcceptCounterOfferEvent ==
    { [kind |-> "AcceptCounterOffer", domain_name |-> p[1], buyer |-> p[2],
       value |-> v] : p \in Pairs, v \in Amounts }

OfferEvent ==
    OfferPlacedEvent \cup OfferCancelledEvent \cup OfferAcceptedEvent
        \cup OfferDeclinedEvent \cup MakeCounterOfferEvent \cup AcceptCounterOfferEvent

\* OfferValue { event, created_at, tx_digest }
OfferValue ==
    { [event |-> e, created_at |-> s.created_at, tx_digest |-> s.tx_digest] :
        e \in OfferEvent, s \in Stamps }

(***************************************************************************)
(* Conversions                                                             *)
(***************************************************************************)
REPLACEMENT_CHARACTER == "<U+FFFD>"

\* one byte of a domain name as String::from_utf8_lossy renders it
Utf8LossyByte(b) ==
    CASE b = 100 -> "d"
      [] b = 49 -> "1"
      [] b = 50 -> "2"
      [] OTHER -> REPLACEMENT_CHARACTER

RECURSIVE convert_domain_name(_)
convert_domain_name(bytes) ==
    IF bytes = <<>> THEN ""
    ELSE Utf8LossyByte(Head(bytes)) \o convert_domain_name(Tail(bytes))

\* u64::to_string
U64ToString(v) == ToString(v)

\* the buyer an event names: `address` for Placed/Cancelled, `buyer` otherwise
EventBuyer(e) == IF e.kind \in {"Placed", "Cancelled"} THEN e.address ELSE e.buyer

(***************************************************************************)
(* The offers table                                                        *)
(***************************************************************************)
RowsOf(rows, domain_name, buyer) ==
    { i \in 1..Len(rows) : rows[i].domain_name = domain_name /\ rows[i].buyer = buyer }

\* InsertOffer with created_at left at the column default instead of the tuple's
InsertOfferDefaultCreatedAt(rows, placed_event, value) ==
    Append(rows,
        [id |-> Len(rows) + 1,
         domain_name |-> convert_domain_name(placed_event.domain_name),
         buyer |-> placed_event.address,
         initial_value |-> U64ToString(placed_event.value),
         value |-> U64ToString(placed_event.value),
         owner |-> None,
         status |-> "Placed",
         updated_at |-> value.created_at,
         created_at |-> 0,
         last_tx_digest |-> value.tx_digest])

\* insert_into(offers).values(Offer { id: None, .. }): the id is the table's
\* next serial value
InsertOffer(rows, placed_event, value) ==
    Append(rows,
        [id |-> Len(rows) + 1,
         domain_name |-> convert_domain_name(placed_event.domain_name),
         buyer |-> placed_event.address,
         initial_value |-> U64ToString(placed_event.value),
         value |-> U64ToString(placed_event.value),
         owner |-> None,
         status |-> "Placed",
         updated_at |-> value.created_at,
         created_at |-> value.created_at,
         last_tx_digest |-> value.tx_digest])

\* Result<Option<i32>> of the lookup
OkId(opt) == [ok |-> TRUE, id |-> opt]
ErrId == [ok |-> FALSE, id |-> NoId]

\* the lookup without .optional(): no matching row is the NotFound error
get_latest_offer_id_not_optional(rows, address, domain_name) ==
    LET m == RowsOf(rows, domain_name, address)
    IN  { ErrId } \cup
        { OkId(Some(rows[i].id)) : i \in { j \in m :
              \A k \in m : rows[k].updated_at <= rows[j].updated_at } }

\* the lookup without the filter on buyer
get_latest_offer_id_any_buyer(rows, address, domain_name) ==
    LET m == { i \in 1..Len(rows) : rows[i].domain_name = domain_name }
    IN  { ErrId } \cup
        ( IF m = {} THEN { OkId(NoId) }
          ELSE { OkId(Some(rows[i].id)) : i \in { j \in m :
                     \A k \in m : rows[k].updated_at <= rows[j].updated_at } } )

\* SELECT id .. WHERE domain_name = .. AND buyer = .. ORDER BY updated_at DESC
\* LIMIT 1, then .optional()?: the results the query may have.  Rows that tie on
\* updated_at come back in an order the query does not fix; no matching row is
\* Ok(None); any other failure of the query is the error
get_latest_offer_id(rows, address, domain_name) ==
    LET m == RowsOf(rows, domain_name, address)
    IN  { ErrId } \cup
        ( IF m = {} THEN { OkId(NoId) }
          ELSE { OkId(Some(rows[i].id)) : i \in { j \in m :
                     \A k \in m : rows[k].updated_at <= rows[j].updated_at } } )

\* UpdateOffer without last_tx_digest in the changeset
UpdateOfferKeepsDigest(rows, id, changeset) ==
    [ i \in 1..Len(rows) |->
        IF rows[i].id = id
        THEN [ rows[i] EXCEPT
                 !.value = changeset.value,
                 !.owner = IF changeset.owner = None THEN @ ELSE changeset.owner,
                 !.status = changeset.status,
                 !.updated_at = changeset.updated_at ]
        ELSE rows[i] ]

\* UpdateOffer with initial_value in the changeset, set to the new value
UpdateOfferWritesInitialValue(rows, id, changeset) ==
    [ i \in 1..Len(rows) |->
        IF rows[i].id = id
        THEN [ rows[i] EXCEPT
                 !.initial_value = changeset.value,
                 !.value = changeset.value,
                 !.owner = IF changeset.owner = None THEN @ ELSE changeset.owner,
                 !.status = changeset.status,
                 !.updated_at = changeset.updated_at,
                 !.last_tx_digest = changeset.last_tx_digest ]
        ELSE rows[i] ]

\* update(offers.filter(id.eq(id))).set(UpdateOffer { .. }); a changeset field
\* that is None (owner) is not written
UpdateOffer(rows, id, changeset) ==
    [ i \in 1..Len(rows) |->
        IF rows[i].id = id
        THEN [ rows[i] EXCEPT
                 !.value = changeset.value,
                 !.owner = IF changeset.owner = None THEN @ ELSE changeset.owner,
                 !.status = changeset.status,
                 !.updated_at = changeset.updated_at,
                 !.last_tx_digest = changeset.last_tx_digest ]
        ELSE rows[i] ]

(***************************************************************************)
(* commit: one match arm per event kind                                    *)
(***************************************************************************)
\* outcome of one iteration of the loop over `values`: the rows it leaves, or
\* the error that `?` carries out of the transaction closure
Done(rows) == [ok |-> TRUE, rows |-> rows]
Failed == [ok |-> FALSE, rows |-> <<>>]

\* the Placed arm that inserts only when the pair has no row yet
PlacedArmOncePerPair(rows, value) ==
    IF RowsOf(rows, convert_domain_name(value.event.domain_name),
              value.event.address) # {}
    THEN { Done(rows), Failed }
    ELSE { Done(InsertOffer(rows, value.event, value)), Failed }

PlacedArm(rows, value) ==
    { Done(InsertOffer(rows, value.event, value)), Failed }

\* the Cancelled arm that deletes the row it finds instead of updating it
CancelledArmDeletes(rows, value) ==
    LET domain_name == convert_domain_name(value.event.domain_name)
        Outcomes(latest_offer_id) ==
            IF ~latest_offer_id.ok THEN { Failed }
            ELSE IF latest_offer_id.id = NoId THEN { Done(rows) }
            ELSE { Done(SelectSeq(rows, LAMBDA r : r.id # latest_offer_id.id[1])),
                   Failed }
    IN  UNION { Outcomes(latest_offer_id) : latest_offer_id \in
                  get_latest_offer_id(rows, value.event.address, domain_name) }

\* the Cancelled arm whose update filters on the pair instead of the id: it
\* writes every row of the pair
CancelledArmUpdatesPair(rows, value) ==
    LET domain_name == convert_domain_name(value.event.domain_name)
        changeset == [value |-> U64ToString(value.event.value),
                      owner |-> None,
                      status |-> "Cancelled",
                      updated_at |-> value.created_at,
                      last_tx_digest |-> value.tx_digest]
        Outcomes(latest_offer_id) ==
            IF ~latest_offer_id.ok THEN { Failed }
            ELSE IF latest_offer_id.id = NoId THEN { Done(rows) }
            ELSE { Done([ i \in 1..Len(rows) |->
                            IF i \in RowsOf(rows, domain_name, value.event.address)
                            THEN UpdateOffer(rows, rows[i].id, changeset)[i]
                            ELSE rows[i] ]),
                   Failed }
    IN  UNION { Outcomes(latest_offer_id) : latest_offer_id \in
                  get_latest_offer_id(rows, value.event.address, domain_name) }

CancelledArm(rows, value) ==
    LET domain_name == convert_domain_name(value.event.domain_name)
        Outcomes(latest_offer_id) ==
            IF ~latest_offer_id.ok THEN { Failed }
            ELSE IF latest_offer_id.id = NoId THEN { Done(rows) }
            ELSE { Done(UpdateOffer(rows, latest_offer_id.id[1],
                        [value |-> U64ToString(value.event.value),
                         owner |-> None,
                         status |-> "Cancelled",
                         updated_at |-> value.created_at,
                         last_tx_digest |-> value.tx_digest])),
                   Failed }
    IN  UNION { Outcomes(latest_offer_id) : latest_offer_id \in
                  get_latest_offer_id(rows, value.event.address, domain_name) }

\* the four remaining arms have no statement (their bodies are commented out)
AcceptedArm(rows, value) == { Done(rows) }

DeclinedArm(rows, value) == { Done(rows) }

MakeCounterOfferArm(rows, value) == { Done(rows) }

\* the AcceptCounterOffer arm with the commented-out update put back: it updates
\* the latest row of the pair whatever its status
AcceptCounterOfferArmUpdates(rows, value) ==
    LET m == RowsOf(rows, convert_domain_name(value.event.domain_name),
                    value.event.buyer)
    IN  IF m = {} THEN { Done(rows) }
        ELSE { Done(UpdateOffer(rows, rows[i].id,
                      [value |-> U64ToString(value.event.value),
                       owner |-> None,
                       status |-> "AcceptedCountered",
                       updated_at |-> value.created_at,
                       last_tx_digest |-> value.tx_digest])) :
                 i \in { j \in m : \A k \in m : rows[k].updated_at <= rows[j].updated_at } }

AcceptCounterOfferArm(rows, value) == { Done(rows) }

ApplyValue(rows, value) ==
    CASE value.event.kind = "Placed" -> PlacedArm(rows, value)
      [] value.event.kind = "Cancelled" -> CancelledArm(rows, value)
      [] value.event.kind = "Accepted" -> AcceptedArm(rows, value)
      [] value.event.kind = "Declined" -> DeclinedArm(rows, value)
      [] value.event.kind = "MakeCounterOffer" -> MakeCounterOfferArm(rows, value)
      [] value.event.kind = "AcceptCounterOffer" -> AcceptCounterOfferArm(rows, value)

\* what commit returned: Ok(usize), Err(_), or nothing (yet)
Ok(k) == [tag |-> "Ok", count |-> k]
Err == [tag |-> "Err", count |-> 0]
NoResult == [tag |-> "NoResult", count |-> 0]

Init ==
    /\ offers = <<>>
    /\ tx = <<>>
    /\ pc = "idle"
    /\ len = 0
    /\ pos = 0
    /\ ev = NoValue
    /\ prev = <<>>
    /\ result = NoResult
    /\ values = <<>>
    /\ round = 0
    /\ n = 0
    /\ stream = <<>>
    /\ processed = <<>>
    /\ inflight = {}
    /\ log = <<>>

\* commit(&[]): returns Ok(0) before any transaction is opened
CommitEmpty ==
    /\ pc = "idle"
    /\ result' = Ok(0)
    /\ ev' = NoValue
    /\ prev' = <<>>
    /\ UNCHANGED <<offers, tx, pc, len, pos, values, round, n, pvars>>

\* commit(values) with k = values.len() > 0: conn.transaction(..) begins
Begin(k) ==
    /\ pc = "idle"
    /\ k > 0
    /\ pc' = "in_tx"
    /\ len' = k
    /\ pos' = 0
    /\ tx' = offers
    /\ ev' = NoValue
    /\ prev' = <<>>
    /\ result' = NoResult
    /\ UNCHANGED <<offers, values, round>>

\* a commit of a batch of k tuples arrives (the tuples are drawn as the loop
\* reaches them)
BeginCommit(k) ==
    /\ n + k <= MaxEvents
    /\ n' = n + k
    /\ Begin(k)
    /\ UNCHANGED pvars

\* the loop that ends at the first event that changes no row (a break where
\* the code goes on to the next value)
ApplyStepStopsAtSkip(value) ==
    /\ pc = "in_tx"
    /\ pos < len
    /\ \E o \in ApplyValue(tx, value) : o.ok /\ tx' = o.rows
    /\ pos' = IF tx' = tx THEN len ELSE pos + 1
    /\ ev' = <<value>>
    /\ prev' = tx
    /\ UNCHANGED <<offers, pc, len, result, values, round, n, pvars>>

\* one iteration of `for value in values.iter()` whose statements succeed
ApplyStep(value) ==
    /\ pc = "in_tx"
    /\ pos < len
    /\ \E o \in ApplyValue(tx, value) : o.ok /\ tx' = o.rows
    /\ pos' = pos + 1
    /\ ev' = <<value>>
    /\ prev' = tx
    /\ UNCHANGED <<offers, pc, len, result, values, round, n, pvars>>

\* commit without the transaction around the loop: the rows written before the
\* error stay
RollbackKeepsWrites ==
    /\ pc' = "idle"
    /\ result' = Err
    /\ offers' = tx
    /\ len' = 0
    /\ pos' = 0
    /\ UNCHANGED <<tx, ev, prev, values, round, n, pvars>>

\* the transaction is rolled back and commit returns the error
Rollback ==
    /\ pc' = "idle"
    /\ result' = Err
    /\ tx' = offers
    /\ len' = 0
    /\ pos' = 0
    /\ UNCHANGED <<offers, ev, prev, values, round, n, pvars>>

\* a statement of the iteration for `value` fails: `?` leaves the closure
StorageFault(value) ==
    /\ pc = "in_tx"
    /\ pos < len
    /\ \E o \in ApplyValue(tx, value) : ~o.ok
    /\ Rollback

\* the loop is over but the COMMIT of the transaction fails
CommitFault ==
    /\ pc = "in_tx"
    /\ pos = len
    /\ Rollback

\* the host stops while the transaction is open: the connection is dropped,
\* nothing of the transaction is committed and commit returns nothing
Shutdown ==
    /\ pc = "in_tx"
    /\ pc' = "idle"
    /\ result' = NoResult
    /\ tx' = offers
    /\ len' = 0
    /\ pos' = 0
    /\ ev' = NoValue
    /\ prev' = <<>>
    /\ UNCHANGED <<offers, values, round, n, pvars>>

\* commit that returns the number of rows the batch added instead of the
\* number of its tuples
FinishReturnsRowsAdded ==
    /\ pc = "in_tx"
    /\ pos = len
    /\ offers' = tx
    /\ pc' = "idle"
    /\ result' = Ok(Len(tx) - Len(offers))
    /\ len' = 0
    /\ pos' = 0
    /\ ev' = NoValue
    /\ prev' = <<>>
    /\ UNCHANGED <<tx, n>>

\* the loop is over: Ok(()) commits the transaction, commit returns Ok(len)
Finish ==
    /\ pc = "in_tx"
    /\ pos = len
    /\ offers' = tx
    /\ pc' = "idle"
    /\ result' = Ok(len)
    /\ len' = 0
    /\ pos' = 0
    /\ ev' = NoValue
    /\ prev' = <<>>
    /\ UNCHANGED <<tx, n>>

FinishCommit ==
    /\ Finish
    /\ UNCHANGED <<values, round, pvars>>

Next ==
    \/ CommitEmpty
    \/ \E k \in 1..MaxBatch : BeginCommit(k)
    \/ \E value \in OfferValue : ApplyStep(value)
    \/ \E value \in OfferValue : StorageFault(value)
    \/ CommitFault
    \/ Shutdown
    \/ FinishCommit

Spec == Init /\ [][Next]_vars

TypeOK ==
    /\ pc \in {"idle", "in_tx"}
    /\ pos \in 0..len
    /\ \A i \in 1..Len(offers) : offers[i].id = i /\ offers[i].status \in OfferStatus

(***************************************************************************)
(* Scripted runs: the batch `values` is fixed in advance and delivered to  *)
(* commit up to MaxRounds times (at-least-once delivery of one batch)      *)
(***************************************************************************)
Tuple(e, s) == [event |-> e, created_at |-> s.created_at, tx_digest |-> s.tx_digest]

\* Placed(d, b, 100), MakeCounterOffer(d, owner, b, 150), AcceptCounterOffer(d, b, 150)
CounterAcceptBatches ==
    { << Tuple([kind |-> "Placed", domain_name |-> p[1], address |-> p[2],
                value |-> 100], s1),
         Tuple([kind |-> "MakeCounterOffer", domain_name |-> p[1], owner |-> o,
                buyer |-> p[2], value |-> 150], s2),
         Tuple([kind |-> "AcceptCounterOffer", domain_name |-> p[1], buyer |-> p[2],
                value |-> 150], s3) >> :
        p \in Pairs, o \in OwnerAddresses, s1 \in Stamps, s2 \in Stamps, s3 \in Stamps }

\* the tuples of one negotiation: domain "d1", buyer 0xb1
ScriptValue ==
    { v \in OfferValue :
        v.event.domain_name = <<100, 49>> /\ EventBuyer(v.event) = "0xb1" }

RECURSIVE SeqsOf(_, _)
SeqsOf(S, k) ==
    IF k = 0 THEN { <<>> }
    ELSE { Append(q, x) : q \in SeqsOf(S, k - 1), x \in S }

\* Placed(d1, b, 100), Cancelled(d1, b, 100), Placed(d1, b, 150),
\* Cancelled(d1, b, 150): an offer withdrawn and placed again
RenegotiationBatches ==
    { << Tuple([kind |-> "Placed", domain_name |-> <<100, 49>>, address |-> "0xb1",
                value |-> 100], s1),
         Tuple([kind |-> "Cancelled", domain_name |-> <<100, 49>>, address |-> "0xb1",
                value |-> 100], s2),
         Tuple([kind |-> "Placed", domain_name |-> <<100, 49>>, address |-> "0xb1",
                value |-> 150], s3),
         Tuple([kind |-> "Cancelled", domain_name |-> <<100, 49>>, address |-> "0xb1",
                value |-> 150], s4) >> :
        s1 \in Stamps, s2 \in Stamps, s3 \in Stamps, s4 \in Stamps }

\* Cancelled(d1, b, 100) before any offer, Placed(d1, b, 100), Cancelled(d1, b,
\* 100), Declined(d1, owner, b, 100) on the cancelled offer, Placed(d1, b, 150)
SkippedEventBatches ==
    { << Tuple([kind |-> "Cancelled", domain_name |-> <<100, 49>>, address |-> "0xb1",
                value |-> 100], s1),
         Tuple([kind |-> "Placed", domain_name |-> <<100, 49>>, address |-> "0xb1",
                value |-> 100], s2),
         Tuple([kind |-> "Cancelled", domain_name |-> <<100, 49>>, address |-> "0xb1",
                value |-> 100], s3),
         Tuple([kind |-> "Declined", domain_name |-> <<100, 49>>, owner |-> "0xo1",
                buyer |-> "0xb1", value |-> 100], s4),
         Tuple([kind |-> "Placed", domain_name |-> <<100, 49>>, address |-> "0xb1",
                value |-> 150], s5) >> :
        s1 \in Stamps, s2 \in Stamps, s3 \in Stamps, s4 \in Stamps, s5 \in Stamps }

ScriptBatches ==
    CounterAcceptBatches \cup RenegotiationBatches \cup SkippedEventBatches
        \cup UNION { SeqsOf(ScriptValue, k) : k \in 1..MaxBatch }

InitScript ==
    /\ offers = <<>>
    /\ tx = <<>>
    /\ pc = "idle"
    /\ len = 0
    /\ pos = 0
    /\ ev = NoValue
    /\ prev = <<>>
    /\ result = NoResult
    /\ values \in ScriptBatches
    /\ round = 0
    /\ n = 0
    /\ stream = <<>>
    /\ processed = <<>>
    /\ inflight = {}
    /\ log = <<>>

CommitScript ==
    /\ round < MaxRounds
    /\ Begin(Len(values))
    /\ UNCHANGED <<n, pvars>>

ApplyNext ==
    /\ pos < len
    /\ ApplyStep(values[pos + 1])

FaultNext ==
    /\ pos < len
    /\ StorageFault(values[pos + 1])

FinishScript ==
    /\ Finish
    /\ round' = round + 1
    /\ UNCHANGED <<values, pvars>>

NextScript ==
    \/ CommitScript
    \/ ApplyNext
    \/ FaultNext
    \/ CommitFault
    \/ Shutdown
    \/ FinishScript

SpecScript == InitScript /\ [][NextScript]_vars

(***************************************************************************)
(* Event decoder: process_event and try_deserialize_event                  *)
(***************************************************************************)
\* A type tag is the text address::module::name, kept as the sequence of its
\* parts with the separators, so that starts_with and ends_with compare text
StartsWith(text, prefix) ==
    Len(prefix) <= Len(text) /\ SubSeq(text, 1, Len(prefix)) = prefix

EndsWith(text, suffix) ==
    Len(suffix) <= Len(text)
        /\ SubSeq(text, Len(text) - Len(suffix) + 1, Len(text)) = suffix

\* the package id the handler is constructed with
contract_package_id == <<"0xe4">>

PackageIds == { "0xe4", "0xff" }

\* struct names of the six offer events, and one of another event of the package
EventNames ==
    { "OfferPlacedEvent", "OfferCancelledEvent", "OfferAcceptedEvent",
      "OfferDeclinedEvent", "MakeCounterOfferEvent", "AcceptCounterOfferEvent" }

OtherNames == { "AuctionStartedEvent" }

TypeTag(package, name) == <<package, "::", "offers", "::", name>>

\* widths of the wire format (BCS): SuiAddress is 32 bytes, u64 is 8 bytes
\* little-endian, Vec<u8> is its length (one ULEB128 byte below 128) then the bytes
SUI_ADDRESS_LENGTH == 32
U64_LENGTH == 8
ULEB_SINGLE == 128

\* the last byte of the addresses of the events; the other bytes are 0
AddressByte == ("0xb1" :> 177) @@ ("0xb2" :> 178) @@ ("0xo1" :> 1)

AddressBytes(a) ==
    [ i \in 1..SUI_ADDRESS_LENGTH |-> IF i = SUI_ADDRESS_LENGTH THEN AddressByte[a] ELSE 0 ]

\* a SuiAddress from its bytes
SuiAddress(bytes) ==
    IF \E a \in DOMAIN AddressByte : AddressBytes(a) = bytes
    THEN CHOOSE a \in DOMAIN AddressByte : AddressBytes(a) = bytes
    ELSE "0x??"

RECURSIVE U64Bytes(_, _)
U64Bytes(v, k) == IF k = 0 THEN <<>> ELSE <<v % 256>> \o U64Bytes(v \div 256, k - 1)

RECURSIVE U64Of(_)
U64Of(bytes) == IF bytes = <<>> THEN 0 ELSE Head(bytes) + 256 * U64Of(Tail(bytes))

\* the fields of the event structs, in declaration order
Schema(kind) ==
    CASE kind \in {"Placed", "Cancelled"} -> <<"bytes", "address", "u64">>
      [] kind \in {"Accepted", "Declined", "MakeCounterOffer"} ->
            <<"bytes", "address", "address", "u64">>
      [] kind = "AcceptCounterOffer" -> <<"bytes", "address", "u64">>

\* the field values of an event, in declaration order
FieldsOf(e) ==
    CASE e.kind \in {"Placed", "Cancelled"} -> <<e.domain_name, e.address, e.value>>
      [] e.kind \in {"Accepted", "Declined", "MakeCounterOffer"} ->
            <<e.domain_name, e.owner, e.buyer, e.value>>
      [] e.kind = "AcceptCounterOffer" -> <<e.domain_name, e.buyer, e.value>>

EventOf(kind, f) ==
    CASE kind \in {"Placed", "Cancelled"} ->
            [kind |-> kind, domain_name |-> f[1], address |-> f[2], value |-> f[3]]
      [] kind \in {"Accepted", "Declined", "MakeCounterOffer"} ->
            [kind |-> kind, domain_name |-> f[1], owner |-> f[2], buyer |-> f[3],
             value |-> f[4]]
      [] kind = "AcceptCounterOffer" ->
            [kind |-> kind, domain_name |-> f[1], buyer |-> f[2], value |-> f[3]]

\* bcs::to_bytes of one field
EncodeField(type, x) ==
    CASE type = "bytes" -> <<Len(x)>> \o x
      [] type = "address" -> AddressBytes(x)
      [] type = "u64" -> U64Bytes(x, U64_LENGTH)

RECURSIVE EncodeFields(_, _)
EncodeFields(schema, f) ==
    IF schema = <<>> THEN <<>>
    ELSE EncodeField(Head(schema), Head(f)) \o EncodeFields(Tail(schema), Tail(f))

\* the payload the contract emits for an event
Encode(e) == EncodeFields(Schema(e.kind), FieldsOf(e))

\* number of bytes the next field of the given type takes from the input, or
\* 0 when the input ends before the field does
FieldLength(type, input) ==
    CASE type = "bytes" ->
            IF input # <<>> /\ Head(input) < ULEB_SINGLE /\ Len(input) >= 1 + Head(input)
            THEN 1 + Head(input) ELSE 0
      [] type = "address" ->
            IF Len(input) >= SUI_ADDRESS_LENGTH THEN SUI_ADDRESS_LENGTH ELSE 0
      [] type = "u64" -> IF Len(input) >= U64_LENGTH THEN U64_LENGTH ELSE 0

DecodeField(type, bytes) ==
    CASE type = "bytes" -> Tail(bytes)
      [] type = "address" -> SuiAddress(bytes)
      [] type = "u64" -> U64Of(bytes)

\* from_bytes that does not look at what is left of the input after the last
\* field
RECURSIVE from_bytes_ignores_rest(_, _)
from_bytes_ignores_rest(schema, input) ==
    IF schema = <<>>
    THEN [ok |-> TRUE, fields |-> <<>>]
    ELSE LET k == FieldLength(Head(schema), input)
         IN  IF k = 0 THEN [ok |-> FALSE, fields |-> <<>>]
             ELSE LET rest == from_bytes_ignores_rest(Tail(schema),
                                  SubSeq(input, k + 1, Len(input)))
                  IN  IF ~rest.ok THEN rest
                      ELSE [ok |-> TRUE,
                            fields |-> <<DecodeField(Head(schema), SubSeq(input, 1, k))>>
                                           \o rest.fields]

\* bcs::from_bytes::<T>: the fields in order, then the input must be used up
RECURSIVE from_bytes(_, _)
from_bytes(schema, input) ==
    IF schema = <<>>
    THEN [ok |-> input = <<>>, fields |-> <<>>]
    ELSE LET k == FieldLength(Head(schema), input)
         IN  IF k = 0 THEN [ok |-> FALSE, fields |-> <<>>]
             ELSE LET rest == from_bytes(Tail(schema), SubSeq(input, k + 1, Len(input)))
                  IN  IF ~rest.ok THEN rest
                      ELSE [ok |-> TRUE,
                            fields |-> <<DecodeField(Head(schema), SubSeq(input, 1, k))>>
                                           \o rest.fields]

\* Result<Option<OfferEvent>> of process_event
SomeEvent(e) == [tag |-> "Some", event |-> <<e>>]
NoEvent == [tag |-> "None", event |-> <<>>]
DecodeError == [tag |-> "Err", event |-> <<>>]

try_deserialize_event(kind, contents) ==
    LET r == from_bytes(Schema(kind), contents)
    IN  IF r.ok THEN SomeEvent(EventOf(kind, r.fields)) ELSE DecodeError

\* process_event with a final else that reports an event of the package with
\* an unknown name as an error
process_event_rejects_unknown(event) ==
    LET event_type == event.type_
    IN  IF StartsWith(event_type, contract_package_id)
        THEN IF EndsWith(event_type, <<"::", "OfferPlacedEvent">>)
             THEN try_deserialize_event("Placed", event.contents)
             ELSE IF EndsWith(event_type, <<"::", "OfferCancelledEvent">>)
             THEN try_deserialize_event("Cancelled", event.contents)
             ELSE IF EndsWith(event_type, <<"::", "OfferAcceptedEvent">>)
             THEN try_deserialize_event("Accepted", event.contents)
             ELSE IF EndsWith(event_type, <<"::", "OfferDeclinedEvent">>)
             THEN try_deserialize_event("Declined", event.contents)
             ELSE IF EndsWith(event_type, <<"::", "MakeCounterOfferEvent">>)
             THEN try_deserialize_event("MakeCounterOffer", event.contents)
             ELSE IF EndsWith(event_type, <<"::", "AcceptCounterOfferEvent">>)
             THEN try_deserialize_event("AcceptCounterOffer", event.contents)
             ELSE DecodeError
        ELSE NoEvent

\* process_event that tests the name before the package: it deserializes the
\* payload of every event with a recognized name
process_event_name_first(event) ==
    LET event_type == event.type_
        decoded ==
            IF EndsWith(event_type, <<"::", "OfferPlacedEvent">>)
            THEN try_deserialize_event("Placed", event.contents)
            ELSE IF EndsWith(event_type, <<"::", "OfferCancelledEvent">>)
            THEN try_deserialize_event("Cancelled", event.contents)
            ELSE IF EndsWith(event_type, <<"::", "OfferAcceptedEvent">>)
            THEN try_deserialize_event("Accepted", event.contents)
            ELSE IF EndsWith(event_type, <<"::", "OfferDeclinedEvent">>)
            THEN try_deserialize_event("Declined", event.contents)
            ELSE IF EndsWith(event_type, <<"::", "MakeCounterOfferEvent">>)
            THEN try_deserialize_event("MakeCounterOffer", event.contents)
            ELSE IF EndsWith(event_type, <<"::", "AcceptCounterOfferEvent">>)
            THEN try_deserialize_event("AcceptCounterOffer", event.contents)
            ELSE NoEvent
    IN  IF decoded = DecodeError THEN DecodeError
        ELSE IF StartsWith(event_type, contract_package_id) THEN decoded
        ELSE NoEvent

process_event(event) ==
    LET event_type == event.type_
    IN  IF StartsWith(event_type, contract_package_id)
        THEN IF EndsWith(event_type, <<"::", "OfferPlacedEvent">>)
             THEN try_deserialize_event("Placed", event.contents)
             ELSE IF EndsWith(event_type, <<"::", "OfferCancelledEvent">>)
             THEN try_deserialize_event("Cancelled", event.contents)
             ELSE IF EndsWith(event_type, <<"::", "OfferAcceptedEvent">>)
             THEN try_deserialize_event("Accepted", event.contents)
             ELSE IF EndsWith(event_type, <<"::", "OfferDeclinedEvent">>)
             THEN try_deserialize_event("Declined", event.contents)
             ELSE IF EndsWith(event_type, <<"::", "MakeCounterOfferEvent">>)
             THEN try_deserialize_event("MakeCounterOffer", event.contents)
             ELSE IF EndsWith(event_type, <<"::", "AcceptCounterOfferEvent">>)
             THEN try_deserialize_event("AcceptCounterOffer", event.contents)
             ELSE NoEvent
        ELSE NoEvent

(***************************************************************************)
(* Checkpoint event extractor: process                                     *)
(***************************************************************************)
\* Timestamps are u64 milliseconds.  The model keeps them 32 bits narrower
\* than the program: I64_MAX stands for i64::MAX and MAX_UTC_MILLIS for the
\* last millisecond DateTime<Utc> can hold
I64_MAX == 1073741823
MAX_UTC_MILLIS == 955000

\* i64::try_from(timestamp_ms)
I64TryFrom(timestamp_ms) ==
    IF timestamp_ms <= I64_MAX THEN <<timestamp_ms>> ELSE <<>>

\* DateTime::<Utc>::from_timestamp_millis(timestamp_i64)
from_timestamp_millis(timestamp_i64) ==
    IF timestamp_i64 <= MAX_UTC_MILLIS THEN <<timestamp_i64>> ELSE <<>>

\* what process makes of a checkpoint: Ok(values), Err(_), a panic, or nothing
\* as long as it has not run
ProcessOk(vals) == [tag |-> "Ok", values |-> vals]
ProcessErr == [tag |-> "Err", values |-> <<>>]
ProcessPanic == [tag |-> "Panic", values |-> <<>>]
NotProcessed == [tag |-> "NotYet", values |-> <<>>]

\* the loop of for_event that logs the decode error and goes on
RECURSIVE for_event_skips_errors(_, _, _)
for_event_skips_errors(events, tx_digest, created_at) ==
    IF events = <<>> THEN ProcessOk(<<>>)
    ELSE LET r == process_event(Head(events))
             rest == for_event_skips_errors(Tail(events), tx_digest, created_at)
         IN  IF r.tag = "Some"
             THEN ProcessOk(<< [event |-> r.event[1],
                                created_at |-> created_at,
                                tx_digest |-> tx_digest] >> \o rest.values)
             ELSE rest

\* the loop of for_event that stamps each value with a time of its own
RECURSIVE for_event_stamps_each(_, _, _)
for_event_stamps_each(events, tx_digest, created_at) ==
    IF events = <<>> THEN ProcessOk(<<>>)
    ELSE LET r == process_event(Head(events))
         IN  IF r.tag = "Err" THEN ProcessPanic
             ELSE LET rest == for_event_stamps_each(Tail(events), tx_digest,
                                                    created_at + 1)
                  IN  IF rest.tag # "Ok" THEN rest
                      ELSE IF r.tag = "Some"
                      THEN ProcessOk(<< [event |-> r.event[1],
                                         created_at |-> created_at,
                                         tx_digest |-> tx_digest] >> \o rest.values)
                      ELSE rest

\* the loop over the events of one transaction: the values pushed, or the
\* panic of the Err arm
RECURSIVE for_event(_, _, _)
for_event(events, tx_digest, created_at) ==
    IF events = <<>> THEN ProcessOk(<<>>)
    ELSE LET r == process_event(Head(events))
         IN  IF r.tag = "Err" THEN ProcessPanic
             ELSE LET rest == for_event(Tail(events), tx_digest, created_at)
                  IN  IF rest.tag # "Ok" THEN rest
                      ELSE IF r.tag = "Some"
                      THEN ProcessOk(<< [event |-> r.event[1],
                                         created_at |-> created_at,
                                         tx_digest |-> tx_digest] >> \o rest.values)
                      ELSE rest

\* the collect that puts the values of a later transaction first
RECURSIVE filter_map_later_first(_, _)
filter_map_later_first(transactions, created_at) ==
    IF transactions = <<>> THEN ProcessOk(<<>>)
    ELSE LET r == for_event(Head(transactions).events, Head(transactions).digest,
                            created_at)
         IN  IF r.tag # "Ok" THEN r
             ELSE LET rest == filter_map_later_first(Tail(transactions), created_at)
                  IN  IF rest.tag # "Ok" THEN rest
                      ELSE ProcessOk(rest.values \o r.values)

\* checkpoint.transactions.iter().filter_map(..).flatten().collect()
RECURSIVE filter_map(_, _)
filter_map(transactions, created_at) ==
    IF transactions = <<>> THEN ProcessOk(<<>>)
    ELSE LET r == for_event(Head(transactions).events, Head(transactions).digest,
                            created_at)
         IN  IF r.tag # "Ok" THEN r
             ELSE LET rest == filter_map(Tail(transactions), created_at)
                  IN  IF rest.tag # "Ok" THEN rest
                      ELSE ProcessOk(r.values \o rest.values)

\* process that converts the timestamp only for a checkpoint that has values
process_converts_for_values(checkpoint) ==
    LET r == filter_map(checkpoint.transactions, checkpoint.timestamp_ms)
        timestamp_i64 == I64TryFrom(checkpoint.timestamp_ms)
    IN  IF r.tag # "Ok" \/ r.values = <<>> THEN r
        ELSE IF timestamp_i64 = <<>> THEN ProcessErr
        ELSE IF from_timestamp_millis(timestamp_i64[1]) = <<>> THEN ProcessErr
        ELSE r

process(checkpoint) ==
    LET timestamp_i64 == I64TryFrom(checkpoint.timestamp_ms)
    IN  IF timestamp_i64 = <<>> THEN ProcessErr
        ELSE LET created_at == from_timestamp_millis(timestamp_i64[1])
             IN  IF created_at = <<>> THEN ProcessErr
                 ELSE filter_map(checkpoint.transactions, created_at[1])

(***************************************************************************)
(* The pipeline around the handler: the checkpoints of `stream` are        *)
(* processed concurrently, the collector batches the values of the         *)
(* processed checkpoints that wait, lowest sequence number first, and one  *)
(* writer (write_concurrency: 1) commits batch after batch, trying a       *)
(* failed batch again                                                      *)
(***************************************************************************)
MaxCheckpoints == 2
MaxRawEvents == 2

RawEvent(package, name, contents) ==
    [type_ |-> TypeTag(package, name), contents |-> contents]

\* one event of each kind, as the contract emits it for ("d1", 0xb1)
SampleEvent(kind) ==
    CASE kind \in {"Placed", "Cancelled"} ->
            [kind |-> kind, domain_name |-> <<100, 49>>, address |-> "0xb1",
             value |-> 100]
      [] kind \in {"Accepted", "Declined", "MakeCounterOffer"} ->
            [kind |-> kind, domain_name |-> <<100, 49>>, owner |-> "0xo1",
             buyer |-> "0xb1", value |-> 100]
      [] kind = "AcceptCounterOffer" ->
            [kind |-> kind, domain_name |-> <<100, 49>>, buyer |-> "0xb1",
             value |-> 100]

\* payloads: the two encodings of the samples, each also cut short by a byte
\* and with a byte too many
Payloads ==
    LET good == { Encode(SampleEvent("Placed")), Encode(SampleEvent("Accepted")) }
    IN  good \cup { SubSeq(c, 1, Len(c) - 1) : c \in good }
             \cup { c \o <<0>> : c \in good }

\* every type tag with every payload
RawEvents ==
    { RawEvent(p, nm, c) : p \in PackageIds, nm \in EventNames \cup OtherNames,
                           c \in Payloads }

\* the events of the checkpoints that hold several: two well-formed ones, one
\* with a recognized tag and a payload cut short, one of another package, one
\* of the package with another name
FewRawEvents ==
    { RawEvent("0xe4", "OfferPlacedEvent", Encode(SampleEvent("Placed"))),
      RawEvent("0xe4", "OfferCancelledEvent", Encode(SampleEvent("Cancelled"))),
      RawEvent("0xe4", "OfferPlacedEvent",
               SubSeq(Encode(SampleEvent("Placed")), 1,
                      Len(Encode(SampleEvent("Placed"))) - 1)),
      RawEvent("0xff", "OfferPlacedEvent", Encode(SampleEvent("Placed"))),
      RawEvent("0xe4", "AuctionStartedEvent", Encode(SampleEvent("Placed"))) }

Timestamps == { 1000, MAX_UTC_MILLIS + 1, I64_MAX + 1 }

Transaction(digest, events) == [digest |-> digest, events |-> events]

Checkpoint(timestamp_ms, transactions) ==
    [timestamp_ms |-> timestamp_ms, transactions |-> transactions]

\* the ways to spread a sequence of events over the transactions txA and txB
Spread(events) ==
    { << Transaction("txA", SubSeq(events, 1, k)),
         Transaction("txB", SubSeq(events, k + 1, Len(events))) >> :
        k \in 0..Len(events) }

\* streams of one checkpoint: one transaction with any one event, or one or two
\* transactions with up to MaxRawEvents of the few events
SingleStreams ==
    { << Checkpoint(t, << Transaction("txA", <<e>>) >>) >> :
        t \in Timestamps, e \in RawEvents }
    \cup
    { << Checkpoint(1000, txs) >> :
        txs \in UNION { Spread(events) :
                          events \in UNION { SeqsOf(FewRawEvents, k) :
                                               k \in 0..MaxRawEvents } } }

Digests == <<"txA", "txB", "txC", "txD">>

\* streams of several checkpoints of increasing timestamp, each with one
\* well-formed Placed or Cancelled event
OrderedStreams ==
    UNION { { [ i \in 1..k |->
                  Checkpoint(1000 * i,
                      << Transaction(Digests[i],
                             << RawEvent("0xe4", names[i], Encode(SampleEvent("Placed"))) >>) >>) ] :
              names \in [1..k -> {"OfferPlacedEvent", "OfferCancelledEvent"}] } :
            k \in 2..MaxCheckpoints }

\* the events whose encodings are decoded: domain names with a byte that is
\* not UTF-8 among them, and a value of more than two bytes
CodecDomainNames == DomainNames \cup { <<100, 255>> }
CodecAmounts == Amounts \cup { 70000 }

CodecEvents ==
    { [kind |-> k, domain_name |-> d, address |-> b, value |-> v] :
        k \in {"Placed", "Cancelled"}, d \in CodecDomainNames, b \in Addresses,
        v \in CodecAmounts }
    \cup
    { [kind |-> k, domain_name |-> d, owner |-> o, buyer |-> b, value |-> v] :
        k \in {"Accepted", "Declined", "MakeCounterOffer"}, d \in CodecDomainNames,
        o \in OwnerAddresses, b \in Addresses, v \in CodecAmounts }
    \cup
    { [kind |-> "AcceptCounterOffer", domain_name |-> d, buyer |-> b, value |-> v] :
        d \in CodecDomainNames, b \in Addresses, v \in CodecAmounts }

NameOfKind ==
    ("Placed" :> "OfferPlacedEvent") @@ ("Cancelled" :> "OfferCancelledEvent")
        @@ ("Accepted" :> "OfferAcceptedEvent") @@ ("Declined" :> "OfferDeclinedEvent")
        @@ ("MakeCounterOffer" :> "MakeCounterOfferEvent")
        @@ ("AcceptCounterOffer" :> "AcceptCounterOfferEvent")

\* a sequence without its k-th element
Without(q, k) == SubSeq(q, 1, k - 1) \o SubSeq(q, k + 1, Len(q))

\* the encoding of an event followed by one more field: an empty byte vector,
\* a u64 or an address
WithTrailingField(e) ==
    { Encode(e) \o EncodeField("bytes", <<>>),
      Encode(e) \o EncodeField("u64", e.value),
      Encode(e) \o EncodeField("address", "0xo1") }

\* the encoding of an event with one of its fields left out
WithoutField(e) ==
    { EncodeFields(Without(Schema(e.kind), k), Without(FieldsOf(e), k)) :
        k \in 1..Len(Schema(e.kind)) }

\* streams of one checkpoint with one event of the package: an encoding of an
\* event under the name of its kind, as it is, with a field more, or with a
\* field less
CodecStreams ==
    { << Checkpoint(1000,
            << Transaction("txA", << RawEvent("0xe4", NameOfKind[e.kind], c) >>) >>) >> :
        <<e, c>> \in UNION { {e} \X ({Encode(e)} \cup WithTrailingField(e)
                                         \cup WithoutField(e)) : e \in CodecEvents } }

InitPipeline ==
    /\ offers = <<>>
    /\ tx = <<>>
    /\ pc = "idle"
    /\ len = 0
    /\ pos = 0
    /\ ev = NoValue
    /\ prev = <<>>
    /\ result = NoResult
    /\ values = <<>>
    /\ round = 0
    /\ n = 0
    /\ stream \in SingleStreams \cup OrderedStreams \cup CodecStreams
    /\ processed = [ i \in 1..Len(stream) |-> NotProcessed ]
    /\ inflight = {}
    /\ log = <<>>

\* a processor task runs process on a checkpoint; the tasks of different
\* checkpoints finish in any order
Process(i) ==
    /\ processed[i] = NotProcessed
    /\ processed' = [processed EXCEPT ![i] = process(stream[i])]
    /\ UNCHANGED <<offers, tx, pc, len, pos, ev, prev, result, values, round, n,
                   stream, inflight, log>>

\* the processed checkpoints whose values wait for the committer
Pending ==
    { i \in 1..Len(stream) :
        /\ processed[i].tag = "Ok"
        /\ i \notin inflight
        /\ \A j \in 1..Len(log) : log[j] # i }

\* the members of a set of checkpoints, lowest sequence number first
RECURSIVE Ascending(_)
Ascending(S) ==
    IF S = {} THEN <<>>
    ELSE LET m == CHOOSE x \in S : \A y \in S : x <= y
         IN  <<m>> \o Ascending(S \ {m})

RECURSIVE Concat(_, _)
Concat(f, order) ==
    IF order = <<>> THEN <<>>
    ELSE f[Head(order)].values \o Concat(f, Tail(order))

\* the collector hands the committer a batch: the values of the checkpoints
\* that wait, up to checkpoint m, in sequence-number order
Collect(m) ==
    /\ pc = "idle"
    /\ inflight = {}
    /\ m \in Pending
    /\ inflight' = { i \in Pending : i <= m }
    /\ values' = Concat(processed, Ascending(inflight'))
    /\ UNCHANGED <<offers, tx, pc, len, pos, ev, prev, result, round, n,
                   stream, processed, log>>

\* the committer calls commit(values) for the batch (again after a failure)
CommitBatch ==
    /\ inflight # {}
    /\ values # <<>>
    /\ Begin(Len(values))
    /\ UNCHANGED <<values, n, pvars>>

\* commit of a batch without values returns Ok(0) at once
CommitEmptyBatch ==
    /\ pc = "idle"
    /\ inflight # {}
    /\ values = <<>>
    /\ result' = Ok(0)
    /\ log' = log \o Ascending(inflight)
    /\ inflight' = {}
    /\ UNCHANGED <<offers, tx, pc, len, pos, ev, prev, values, round, n,
                   stream, processed>>

\* commit returned Ok: the batch is written
FinishBatch ==
    /\ inflight # {}
    /\ Finish
    /\ log' = log \o Ascending(inflight)
    /\ inflight' = {}
    /\ values' = <<>>
    /\ UNCHANGED <<round, stream, processed>>

NextPipeline ==
    \/ \E i \in 1..Len(stream) : Process(i)
    \/ \E m \in 1..Len(stream) : Collect(m)
    \/ CommitBatch
    \/ CommitEmptyBatch
    \/ ApplyNext
    \/ FaultNext
    \/ CommitFault
    \/ Shutdown
    \/ FinishBatch

SpecPipeline == InitPipeline /\ [][NextPipeline]_vars

(***************************************************************************)
(* The capture handler (src/src/handlers/offer_handler.rs): its process    *)
(* turns a checkpoint into one value with a list of rows per event kind    *)
(***************************************************************************)
\* OfferHandlerPipeline::try_deserialize_offer_event: bcs::from_bytes on the
\* event structs of offer_handler.rs, which have the fields of those of events.rs
try_deserialize_offer_event(kind, contents) == from_bytes(Schema(kind), contents)

\* the rows process_event builds: OfferPlaced, OfferCancelled, OfferAccepted,
\* OfferDeclined, MakeCounterOffer, AcceptCounterOffer of models.rs
OfferRow(kind, f, tx_digest, created_at) ==
    CASE kind \in {"Placed", "Cancelled"} ->
            [domain_name |-> convert_domain_name(f[1]),
             address |-> f[2],
             value |-> U64ToString(f[3]),
             created_at |-> created_at,
             tx_digest |-> tx_digest]
      [] kind \in {"Accepted", "Declined", "MakeCounterOffer"} ->
            [domain_name |-> convert_domain_name(f[1]),
             address |-> f[3],
             owner |-> f[2],
             value |-> U64ToString(f[4]),
             created_at |-> created_at,
             tx_digest |-> tx_digest]
      [] kind = "AcceptCounterOffer" ->
            [domain_name |-> convert_domain_name(f[1]),
             address |-> f[2],
             value |-> U64ToString(f[3]),
             created_at |-> created_at,
             tx_digest |-> tx_digest]

\* Ok(Some(OfferEvent::<kind>(row)))
SomeOffer(kind, row) == [tag |-> "Some", kind |-> kind, row |-> <<row>>]
NoOffer == [tag |-> "None", kind |-> "", row |-> <<>>]
OfferError == [tag |-> "Err", kind |-> "", row |-> <<>>]

OfferHandlerPipeline_deserialize(kind, event, tx_digest, created_at) ==
    LET r == try_deserialize_offer_event(kind, event.contents)
    IN  IF r.ok THEN SomeOffer(kind, OfferRow(kind, r.fields, tx_digest, created_at))
        ELSE OfferError

OfferHandlerPipeline_process_event(event, tx_digest, created_at) ==
    LET event_type == event.type_
    IN  IF StartsWith(event_type, contract_package_id)
        THEN IF EndsWith(event_type, <<"::", "OfferPlacedEvent">>)
             THEN OfferHandlerPipeline_deserialize("Placed", event, tx_digest, created_at)
             ELSE IF EndsWith(event_type, <<"::", "OfferCancelledEvent">>)
             THEN OfferHandlerPipeline_deserialize("Cancelled", event, tx_digest, created_at)
             ELSE IF EndsWith(event_type, <<"::", "OfferAcceptedEvent">>)
             THEN OfferHandlerPipeline_deserialize("Accepted", event, tx_digest, created_at)
             ELSE IF EndsWith(event_type, <<"::", "OfferDeclinedEvent">>)
             THEN OfferHandlerPipeline_deserialize("Declined", event, tx_digest, created_at)
             ELSE IF EndsWith(event_type, <<"::", "MakeCounterOfferEvent">>)
             THEN OfferHandlerPipeline_deserialize("MakeCounterOffer", event, tx_digest,
                                                   created_at)
             ELSE IF EndsWith(event_type, <<"::", "AcceptCounterOfferEvent">>)
             THEN OfferHandlerPipeline_deserialize("AcceptCounterOffer", event, tx_digest,
                                                   created_at)
             ELSE NoOffer
        ELSE NoOffer

\* the six Vec::new() of process, by kind
NoRows ==
    [placed |-> <<>>, cancelled |-> <<>>, accepted |-> <<>>, declined |-> <<>>,
     make_counter_offer |-> <<>>, accept_counter_offer |-> <<>>]

\* the arm of the match that pushes the row to the list of its kind
Push(lists, kind, row) ==
    CASE kind = "Placed" -> [lists EXCEPT !.placed = Append(@, row)]
      [] kind = "Cancelled" -> [lists EXCEPT !.cancelled = Append(@, row)]
      [] kind = "Accepted" -> [lists EXCEPT !.accepted = Append(@, row)]
      [] kind = "Declined" -> [lists EXCEPT !.declined = Append(@, row)]
      [] kind = "MakeCounterOffer" ->
            [lists EXCEPT !.make_counter_offer = Append(@, row)]
      [] kind = "AcceptCounterOffer" ->
            [lists EXCEPT !.accept_counter_offer = Append(@, row)]

\* the lists after a loop, or the error the loop returned
Gathered(lists) == [ok |-> TRUE, lists |-> lists]
GatherError == [ok |-> FALSE, lists |-> NoRows]

\* the loop over the events of a transaction that logs a decode error and
\* goes on with the next event
RECURSIVE OfferHandlerPipeline_for_event_goes_on(_, _, _, _)
OfferHandlerPipeline_for_event_goes_on(events, tx_digest, created_at, lists) ==
    IF events = <<>> THEN Gathered(lists)
    ELSE LET r == OfferHandlerPipeline_process_event(Head(events), tx_digest, created_at)
         IN  OfferHandlerPipeline_for_event_goes_on(Tail(events), tx_digest, created_at,
                 IF r.tag = "Some" THEN Push(lists, r.kind, r.row[1]) ELSE lists)

\* for event in &events.data: push, pass over, or return Err(e)
RECURSIVE OfferHandlerPipeline_for_event(_, _, _, _)
OfferHandlerPipeline_for_event(events, tx_digest, created_at, lists) ==
    IF events = <<>> THEN Gathered(lists)
    ELSE LET r == OfferHandlerPipeline_process_event(Head(events), tx_digest, created_at)
         IN  IF r.tag = "Err" THEN GatherError
             ELSE OfferHandlerPipeline_for_event(Tail(events), tx_digest, created_at,
                      IF r.tag = "Some" THEN Push(lists, r.kind, r.row[1]) ELSE lists)

\* for tx in &checkpoint.transactions
RECURSIVE OfferHandlerPipeline_for_tx(_, _, _)
OfferHandlerPipeline_for_tx(transactions, created_at, lists) ==
    IF transactions = <<>> THEN Gathered(lists)
    ELSE LET r == OfferHandlerPipeline_for_event(Head(transactions).events,
                      Head(transactions).digest, created_at, lists)
         IN  IF ~r.ok THEN r
             ELSE OfferHandlerPipeline_for_tx(Tail(transactions), created_at, r.lists)

\* OfferHandlerValue
OfferHandlerValue(lists, sequence_number) ==
    [placed |-> lists.placed, cancelled |-> lists.cancelled,
     accepted |-> lists.accepted, declined |-> lists.declined,
     make_counter_offer |-> lists.make_counter_offer,
     accept_counter_offer |-> lists.accept_counter_offer,
     checkpoint |-> sequence_number]

\* OfferHandlerPipeline::process on the checkpoint with the given sequence number
OfferHandlerPipeline_process(checkpoint, sequence_number) ==
    LET timestamp_i64 == I64TryFrom(checkpoint.timestamp_ms)
    IN  IF timestamp_i64 = <<>> THEN ProcessErr
        ELSE LET created_at == from_timestamp_millis(timestamp_i64[1])
             IN  IF created_at = <<>> THEN ProcessErr
                 ELSE LET r == OfferHandlerPipeline_for_tx(checkpoint.transactions,
                                   created_at[1], NoRows)
                      IN  IF ~r.ok THEN ProcessErr
                          ELSE ProcessOk(<< OfferHandlerValue(r.lists, sequence_number) >>)

\* a processor task of the capture pipeline runs process on a checkpoint
Capture(i) ==
    /\ processed[i] = NotProcessed
    /\ processed' = [processed EXCEPT ![i] = OfferHandlerPipeline_process(stream[i], i)]
    /\ UNCHANGED <<offers, tx, pc, len, pos, ev, prev, result, values, round, n,
                   stream, inflight, log>>

NextCapture == \E i \in 1..Len(stream) : Capture(i)

SpecCapture == InitPipeline /\ [][NextCapture]_vars

(***************************************************************************)
(* Properties                                                              *)
(***************************************************************************)
\* the loop has just applied the tuple ev[1]: prev are the rows before the
\* iteration, tx the rows after it
Applied == pc = "in_tx" /\ ev # NoValue

Value == ev[1]

Event == ev[1].event

\* decimal text of the amounts of the events
Decimal(v) == CASE v = 100 -> "100" [] v = 150 -> "150"

\* display text of the domain names of the events
DomainText(bytes) == CASE bytes = <<100, 49>> -> "d1" [] bytes = <<100, 50>> -> "d2"

\* positions of the rows of the (domain, buyer) pair an event names
PairRows(rows, e) ==
    { i \in 1..Len(rows) :
        rows[i].domain_name = DomainText(e.domain_name) /\ rows[i].buyer = EventBuyer(e) }

\* the rows of the pair that no other row of the pair is more recently updated
\* than: the rows the latest-offer lookup can resolve to
LatestRows(rows, e) ==
    { i \in PairRows(rows, e) :
        \A k \in PairRows(rows, e) : rows[k].updated_at <= rows[i].updated_at }

StatusEvents ==
    { "Cancelled", "Accepted", "Declined", "MakeCounterOffer", "AcceptCounterOffer" }

\* C1: a Placed event for a (domain, buyer) pair that has no row leaves exactly
\* one row for the pair: status Placed, initial_value = value = the event's
\* value, owner null, buyer = the event's address, created_at = updated_at =
\* the tuple's timestamp, last_tx_digest = the tuple's transaction digest
C1_PlacedCreatesOneRow ==
    (Applied /\ Event.kind = "Placed" /\ PairRows(prev, Event) = {}) =>
        /\ Cardinality(PairRows(tx, Event)) = 1
        /\ Len(tx) = Len(prev) + 1
        /\ \A i \in PairRows(tx, Event) :
            /\ tx[i].status = "Placed"
            /\ tx[i].initial_value = Decimal(Event.value)
            /\ tx[i].value = Decimal(Event.value)
            /\ tx[i].owner = None
            /\ tx[i].buyer = Event.address
            /\ tx[i].created_at = Value.created_at
            /\ tx[i].updated_at = Value.created_at
            /\ tx[i].last_tx_digest = Value.tx_digest

\* a Placed event was applied for a pair without a row, next to rows of others
C1_Witness ==
    /\ Applied
    /\ Event.kind = "Placed"
    /\ PairRows(prev, Event) = {}
    /\ Len(prev) >= 1
    /\ Cardinality(PairRows(tx, Event)) = 1

IsCounterAcceptBatch(batch) ==
    /\ Len(batch) = 3
    /\ batch[1].event.kind = "Placed" /\ batch[1].event.value = 100
    /\ batch[2].event.kind = "MakeCounterOffer" /\ batch[2].event.value = 150
    /\ batch[3].event.kind = "AcceptCounterOffer" /\ batch[3].event.value = 150

\* C3: Placed(d, b, 100), MakeCounterOffer(d, owner, b, 150),
\* AcceptCounterOffer(d, b, 150) applied in order to an empty store yield exactly
\* one row for (d, b): status AcceptedCountered, value 150, initial_value 100
C3_CounterAcceptScenario ==
    (pc = "idle" /\ round = 1 /\ IsCounterAcceptBatch(values)) =>
        /\ Len(offers) = 1
        /\ offers[1].status = "AcceptedCountered"
        /\ offers[1].value = "150"
        /\ offers[1].initial_value = "100"

\* C4: the store changes only when a commit returns Ok(len) after the loop
\* applied every tuple of the batch, and then to the rows with all of them
\* applied; a commit that returns an error, or that the host interrupts, leaves
\* the committed rows as they were before the batch, and no uncommitted row
\* outlives the transaction
C4_BatchAtomic ==
    [][ /\ (offers' # offers =>
               pc = "in_tx" /\ pos = len /\ offers' = tx /\ result' = Ok(len))
        /\ ((pc = "in_tx" /\ pc' = "idle" /\ result'.tag # "Ok") => offers' = offers)
        /\ ((pc = "in_tx" /\ pc' = "idle") => tx' = offers') ]_vars

\* commit returned the error after the loop had inserted a row in the
\* transaction, and the store does not hold that row
C4_Witness ==
    /\ pc = "idle"
    /\ result = Err
    /\ ev # NoValue
    /\ Event.kind = "Placed"
    /\ Len(offers) <= Len(prev)
    /\ tx = offers

\* C5: the second commit of a batch leaves the store as the first commit left it
C5_ReplayIdempotent ==
    (pc = "in_tx" /\ round = 1 /\ pos = len) => tx = offers

\* C6: a status-changing event whose lookup resolves to a row in a terminal
\* status changes no field of any row
C6_TerminalRowUntouched ==
    ( /\ Applied
      /\ Event.kind \in StatusEvents
      /\ LatestRows(prev, Event) # {}
      /\ \A i \in LatestRows(prev, Event) : prev[i].status \in Terminal ) =>
        tx = prev

\* C7: a Cancelled event for a pair that has no row changes no row and inserts
\* none, and its iteration does not fail: not finding a row is not an error
C7_CancelledWithoutRowIsNoOp ==
    /\ (Applied /\ Event.kind = "Cancelled" /\ PairRows(prev, Event) = {}) => tx = prev
    /\ pc = "in_tx" =>
        \A value \in OfferValue :
            (value.event.kind = "Cancelled" /\ PairRows(tx, value.event) = {}) =>
                Done(tx) \in ApplyValue(tx, value)

\* a Cancelled event was applied to a store that holds rows, none of its pair,
\* and the commit can now return Ok
C7_Witness ==
    /\ Applied
    /\ Event.kind = "Cancelled"
    /\ PairRows(prev, Event) = {}
    /\ Len(prev) >= 1
    /\ tx = prev
    /\ pos = len

\* a row without its surrogate id
Unkeyed(r) ==
    [domain_name |-> r.domain_name, buyer |-> r.buyer,
     initial_value |-> r.initial_value, value |-> r.value, owner |-> r.owner,
     status |-> r.status, updated_at |-> r.updated_at, created_at |-> r.created_at,
     last_tx_digest |-> r.last_tx_digest]

\* the rows of one buyer, in insertion order
RowsOfBuyer(rows, b) == SelectSeq(rows, LAMBDA r : r.buyer = b)

UnkeyedSeq(rows) == [ i \in 1..Len(rows) |-> Unkeyed(rows[i]) ]

\* C8: an event naming buyer b changes no row of another buyer, and what it
\* does to the rows of b is what it does when only the rows of b exist
C8_BuyersIndependent ==
    Applied =>
        /\ \A i \in 1..Len(prev) :
            prev[i].buyer # EventBuyer(Event) => tx[i] = prev[i]
        /\ \A i \in (Len(prev) + 1)..Len(tx) : tx[i].buyer = EventBuyer(Event)
        /\ UnkeyedSeq(RowsOfBuyer(tx, EventBuyer(Event))) \in
             { UnkeyedSeq(o.rows) :
                 o \in { x \in ApplyValue(RowsOfBuyer(prev, EventBuyer(Event)), Value) :
                           x.ok } }

\* a Cancelled event of one buyer changed a row while a Placed row of another
\* buyer on the same domain was in the store
C8_Witness ==
    /\ Applied
    /\ Event.kind = "Cancelled"
    /\ tx # prev
    /\ \E i \in 1..Len(prev) :
        /\ prev[i].buyer # EventBuyer(Event)
        /\ prev[i].domain_name = DomainText(Event.domain_name)
        /\ prev[i].status = "Placed"

\* <<from, event kind, to>>
TransitionTable ==
    { <<"Placed", "Cancelled", "Cancelled">>,
      <<"Placed", "Accepted", "Accepted">>,
      <<"Placed", "Declined", "Declined">>,
      <<"Placed", "MakeCounterOffer", "Countered">>,
      <<"Countered", "AcceptCounterOffer", "AcceptedCountered">> }

\* C9: every change of a row's status is an edge of the transition table, a new
\* row is Placed and made by a Placed event, no Cancelled, Accepted, Declined or
\* MakeCounterOffer event changes a Countered row and no AcceptCounterOffer event
\* changes a Placed row
C9_StatusChangesAreEdges ==
    Applied =>
        /\ Len(tx) >= Len(prev)
        /\ \A i \in 1..Len(prev) :
            /\ tx[i].status # prev[i].status =>
                 <<prev[i].status, Event.kind, tx[i].status>> \in TransitionTable
            /\ ( Event.kind \in {"Cancelled", "Accepted", "Declined", "MakeCounterOffer"}
                 /\ prev[i].status = "Countered" ) => tx[i] = prev[i]
            /\ (Event.kind = "AcceptCounterOffer" /\ prev[i].status = "Placed") =>
                 tx[i] = prev[i]
        /\ \A i \in (Len(prev) + 1)..Len(tx) :
            Event.kind = "Placed" /\ tx[i].status = "Placed"

\* a Cancelled event moved a row from Placed to Cancelled
C9_Witness ==
    /\ Applied
    /\ Event.kind = "Cancelled"
    /\ \E i \in 1..Len(prev) : prev[i].status = "Placed" /\ tx[i].status = "Cancelled"

\* C10: an Accepted event whose lookup (the most recently updated row of
\* (domain_name, buyer = event.buyer)) resolves to a row with status Placed
\* leaves that row with status Accepted, owner = event.owner, value = event.value
C10_AcceptedUpdatesPlacedRow ==
    ( /\ Applied
      /\ Event.kind = "Accepted"
      /\ LatestRows(prev, Event) # {}
      /\ \A i \in LatestRows(prev, Event) : prev[i].status = "Placed" ) =>
        \E i \in LatestRows(prev, Event) :
            /\ tx[i].status = "Accepted"
            /\ tx[i].owner = Event.owner
            /\ tx[i].value = Decimal(Event.value)

\* C11: a Declined event whose lookup (the most recently updated row of
\* (domain_name, buyer = event.buyer)) resolves to a row with status Placed
\* leaves that row with status Declined, owner = event.owner, value = event.value
C11_DeclinedUpdatesPlacedRow ==
    ( /\ Applied
      /\ Event.kind = "Declined"
      /\ LatestRows(prev, Event) # {}
      /\ \A i \in LatestRows(prev, Event) : prev[i].status = "Placed" ) =>
        \E i \in LatestRows(prev, Event) :
            /\ tx[i].status = "Declined"
            /\ tx[i].owner = Event.owner
            /\ tx[i].value = Decimal(Event.value)

\* C12: a MakeCounterOffer event whose lookup resolves to a row with status
\* Placed leaves that row with status Countered, owner = event.owner, value =
\* event.value and the initial_value it had
C12_MakeCounterOfferUpdatesPlacedRow ==
    ( /\ Applied
      /\ Event.kind = "MakeCounterOffer"
      /\ LatestRows(prev, Event) # {}
      /\ \A i \in LatestRows(prev, Event) : prev[i].status = "Placed" ) =>
        \E i \in LatestRows(prev, Event) :
            /\ tx[i].status = "Countered"
            /\ tx[i].owner = Event.owner
            /\ tx[i].value = Decimal(Event.value)
            /\ tx[i].initial_value = prev[i].initial_value

\* C13: the AcceptCounterOffer event of Placed(d, b), MakeCounterOffer(d, owner,
\* b), AcceptCounterOffer(d, b), applied to the row the MakeCounterOffer event
\* countered, leaves that row with status AcceptedCountered, value =
\* event.value and owner = the owner the MakeCounterOffer event named
C13_AcceptCounterOfferKeepsOwner ==
    ( /\ Applied
      /\ IsCounterAcceptBatch(values)
      /\ round = 0
      /\ pos = Len(values)
      /\ Event.kind = "AcceptCounterOffer" ) =>
        /\ PairRows(tx, Event) # {}
        /\ \A i \in PairRows(tx, Event) :
            /\ tx[i].status = "AcceptedCountered"
            /\ tx[i].value = Decimal(Event.value)
            /\ tx[i].owner = values[pos - 1].event.owner

\* positions of the rows of a pair that are in a non-terminal status
ActiveRows(rows, domain_name, buyer) ==
    { i \in RowsOf(rows, domain_name, buyer) : rows[i].status \notin Terminal }

\* C14: in every state of the store, committed or inside a transaction, every
\* (domain_name, buyer) pair has at most one row in a non-terminal status
C14_AtMostOneActiveRow ==
    \A rows \in {offers, tx} :
        \A i \in 1..Len(rows) :
            Cardinality(ActiveRows(rows, rows[i].domain_name, rows[i].buyer)) <= 1

\* of the given rows, the one updated last; of those that tie, the one inserted
\* last
NewestOf(rows, m) ==
    CHOOSE i \in m :
        \A k \in m :
            \/ rows[k].updated_at < rows[i].updated_at
            \/ (rows[k].updated_at = rows[i].updated_at /\ k <= i)

\* C15: a Cancelled event for a pair that has rows changes the most recently
\* updated row of the pair, among rows of equal updated_at the one with the
\* highest id, and no other row
C15_CancelledHitsLatestRow ==
    (Applied /\ Event.kind = "Cancelled" /\ PairRows(prev, Event) # {}) =>
        LET target == NewestOf(prev, PairRows(prev, Event))
        IN  /\ tx[target].status = "Cancelled"
            /\ tx[target].updated_at = Value.created_at
            /\ tx[target].last_tx_digest = Value.tx_digest
            /\ \A i \in 1..Len(prev) : i # target => tx[i] = prev[i]

\* the rows of the pair of an event that are in a non-terminal status
OpenRows(rows, e) == { i \in PairRows(rows, e) : rows[i].status \notin Terminal }

\* C16: a Cancelled event for a pair whose most recently updated row is
\* terminal while an older row of the pair is still Placed turns Cancelled the
\* most recently updated row among the non-terminal rows of the pair
C16_CancelledResolvesAmongOpenRows ==
    ( /\ Applied
      /\ Event.kind = "Cancelled"
      /\ \A i \in LatestRows(prev, Event) : prev[i].status \in Terminal
      /\ \E i \in PairRows(prev, Event) : prev[i].status = "Placed" ) =>
        \E i \in OpenRows(prev, Event) :
            /\ \A k \in OpenRows(prev, Event) : prev[k].updated_at <= prev[i].updated_at
            /\ tx[i].status = "Cancelled"

IsRenegotiationBatch(batch) ==
    /\ Len(batch) = Len(<<"Placed", "Cancelled", "Placed", "Cancelled">>)
    /\ \A i \in 1..Len(batch) :
        batch[i].event.kind = <<"Placed", "Cancelled", "Placed", "Cancelled">>[i]
    /\ \A i, j \in 1..Len(batch) :
        /\ batch[i].event.domain_name = batch[j].event.domain_name
        /\ batch[i].event.address = batch[j].event.address

\* C17: a Placed event for a pair whose latest row is terminal appends one row
\* with a new id, initial_value and created_at of the new event, and changes no
\* other row; in Placed, Cancelled, Placed, Cancelled for one pair the last
\* event turns the second row Cancelled and leaves the first row as it was
C17_PlacedAfterTerminalStartsNewRow ==
    /\ ( /\ Applied
         /\ Event.kind = "Placed"
         /\ LatestRows(prev, Event) # {}
         /\ \A i \in LatestRows(prev, Event) : prev[i].status \in Terminal ) =>
           /\ Len(tx) = Len(prev) + 1
           /\ \A i \in 1..Len(prev) : tx[i] = prev[i] /\ tx[i].id # tx[Len(tx)].id
           /\ tx[Len(tx)].status = "Placed"
           /\ tx[Len(tx)].initial_value = Decimal(Event.value)
           /\ tx[Len(tx)].created_at = Value.created_at
    /\ ( /\ Applied
         /\ IsRenegotiationBatch(values)
         /\ round = 0
         /\ pos = Len(values) ) =>
           /\ Len(tx) = Len(prev)
           /\ tx[Len(tx)].status = "Cancelled"
           /\ \A i \in 1..(Len(tx) - 1) : tx[i] = prev[i]

\* C18: the checkpoints are written in the order of the stream: the committed
\* checkpoints are in increasing sequence, a batch being written holds only
\* checkpoints after every committed one, its tuples are those of its
\* checkpoints in stream order and the loop applies them in that order, one
\* batch at a time
C18_AppliedInArrivalOrder ==
    /\ \A i, j \in 1..Len(log) : i < j => log[i] < log[j]
    /\ \A i \in inflight : \A j \in 1..Len(log) : log[j] < i
    /\ inflight # {} => values = Concat(processed, Ascending(inflight))
    /\ (Applied /\ inflight # {}) => Value = values[pos]

\* the events of a checkpoint
EventsIn(checkpoint) ==
    { checkpoint.transactions[t].events[k] :
        <<t, k>> \in { p \in (1..Len(checkpoint.transactions)) \X (1..MaxRawEvents + 1) :
                         p[2] <= Len(checkpoint.transactions[p[1]].events) } }

KindOfName ==
    ("OfferPlacedEvent" :> "Placed") @@ ("OfferCancelledEvent" :> "Cancelled")
        @@ ("OfferAcceptedEvent" :> "Accepted") @@ ("OfferDeclinedEvent" :> "Declined")
        @@ ("MakeCounterOfferEvent" :> "MakeCounterOffer")
        @@ ("AcceptCounterOfferEvent" :> "AcceptCounterOffer")

Ours(e) == StartsWith(e.type_, contract_package_id)

Recognized(e) == \E nm \in EventNames : EndsWith(e.type_, <<"::", nm>>)

\* an event of the package with a recognized name whose payload is not an
\* encoding of the struct of that name
Malformed(e) ==
    /\ Ours(e)
    /\ \E nm \in EventNames :
        /\ EndsWith(e.type_, <<"::", nm>>)
        /\ ~from_bytes(Schema(KindOfName[nm]), e.contents).ok

\* an event of the package with a recognized name and a payload that decodes
WellFormed(e) == Ours(e) /\ Recognized(e) /\ ~Malformed(e)

\* C19: a checkpoint that holds a malformed event is never processed to
\* values: process ends in a failure and emits no tuple, the checkpoint enters
\* no batch, and when it is the only checkpoint the store stays empty
C19_MalformedEventAbortsCheckpoint ==
    \A i \in 1..Len(stream) :
        (\E e \in EventsIn(stream[i]) : Malformed(e)) =>
            /\ processed[i].tag \in {"NotYet", "Err", "Panic"}
            /\ processed[i].values = <<>>
            /\ i \notin inflight
            /\ \A j \in 1..Len(log) : log[j] # i
            /\ Len(stream) = 1 => (offers = <<>> /\ tx = <<>> /\ values = <<>>)

\* process has failed on a checkpoint that holds a malformed event next to a
\* well-formed one
C19_Witness ==
    /\ Len(stream) = 1
    /\ \E e \in EventsIn(stream[1]) : Malformed(e)
    /\ \E e \in EventsIn(stream[1]) : WellFormed(e)
    /\ processed[1].tag = "Panic"

\* C20 as stated: for an event of the package whose name is none of the six,
\* the decoder returns a decode error
C20_UnknownSuffixIsDecodeError ==
    \A i \in 1..Len(stream) :
        processed[i] # NotProcessed =>
            \A e \in EventsIn(stream[i]) :
                (Ours(e) /\ ~Recognized(e)) => process_event(e) = DecodeError

\* C20 amended: for an event of the package whose name is none of the six,
\* the decoder returns no event and no error, whatever the payload, and a
\* checkpoint that holds only such an event is processed to no tuple
C20_UnknownSuffixIsNoEvent ==
    \A i \in 1..Len(stream) :
        processed[i] # NotProcessed =>
            /\ \A e \in EventsIn(stream[i]) :
                (Ours(e) /\ ~Recognized(e)) => process_event(e) = NoEvent
            /\ ( /\ stream[i].timestamp_ms <= MAX_UTC_MILLIS
                 /\ \A e \in EventsIn(stream[i]) : Ours(e) /\ ~Recognized(e) ) =>
                   processed[i] = ProcessOk(<<>>)

\* process has run on a checkpoint whose only event is of the package, has
\* another name and carries the payload of a Placed event
C20_Witness ==
    /\ Len(stream) = 1
    /\ EventsIn(stream[1]) =
         { RawEvent("0xe4", "AuctionStartedEvent", Encode(SampleEvent("Placed"))) }
    /\ processed[1] = ProcessOk(<<>>)

\* C21: for an event whose type tag does not start with the package id the
\* handler is constructed with, the decoder returns no event and no error,
\* whatever the name and the payload are, a recognized name with a payload that
\* does not decode included; a checkpoint that holds only such events is
\* processed to no tuple
C21_OtherPackageIsNoEvent ==
    \A i \in 1..Len(stream) :
        processed[i] # NotProcessed =>
            /\ \A e \in EventsIn(stream[i]) : ~Ours(e) => process_event(e) = NoEvent
            /\ ( /\ stream[i].timestamp_ms <= MAX_UTC_MILLIS
                 /\ \A e \in EventsIn(stream[i]) : ~Ours(e) ) =>
                   processed[i] = ProcessOk(<<>>)

\* process has run on a checkpoint whose only event is of another package and
\* has a recognized name with a payload cut short
C21_Witness ==
    /\ Len(stream) = 1
    /\ \E e \in EventsIn(stream[1]) :
        /\ EventsIn(stream[1]) = {e}
        /\ ~Ours(e)
        /\ \E nm \in EventNames :
            /\ EndsWith(e.type_, <<"::", nm>>)
            /\ ~from_bytes(Schema(KindOfName[nm]), e.contents).ok
    /\ processed[1] = ProcessOk(<<>>)

\* the (event, digest of its transaction) pairs of a list of transactions, in
\* the order of the transactions and, within one, of its events
RECURSIVE Flattened(_)
Flattened(transactions) ==
    IF transactions = <<>> THEN <<>>
    ELSE [ k \in 1..Len(Head(transactions).events) |->
             [event |-> Head(transactions).events[k],
              digest |-> Head(transactions).digest] ]
         \o Flattened(Tail(transactions))

\* the pairs of the flattened list whose event decodes to an offer event
DecodedOf(checkpoint) ==
    SelectSeq(Flattened(checkpoint.transactions),
              LAMBDA x : process_event(x.event).tag = "Some")

\* C22: the values of a processed checkpoint are the decoded events of its
\* flattened (transaction, event) list, in the order of that list: the k-th
\* value is the k-th decoded event, none dropped, repeated or moved
C22_ExtractedInCheckpointOrder ==
    \A i \in 1..Len(stream) :
        processed[i].tag = "Ok" =>
            /\ Len(processed[i].values) = Len(DecodedOf(stream[i]))
            /\ \A k \in 1..Len(processed[i].values) :
                /\ processed[i].values[k].event =
                     process_event(DecodedOf(stream[i])[k].event).event[1]
                /\ processed[i].values[k].tx_digest = DecodedOf(stream[i])[k].digest

\* process has run on a checkpoint with a Placed event in its first
\* transaction and a Cancelled event in its second
C22_Witness ==
    /\ Len(stream) = 1
    /\ Len(stream[1].transactions) = 2
    /\ processed[1].tag = "Ok"
    /\ Len(processed[1].values) = 2
    /\ processed[1].values[1].event.kind = "Placed"
    /\ processed[1].values[1].tx_digest = "txA"
    /\ processed[1].values[2].event.kind = "Cancelled"
    /\ processed[1].values[2].tx_digest = "txB"

\* the timestamp of a checkpoint fits i64 and the dates DateTime<Utc> holds
Representable(timestamp_ms) ==
    timestamp_ms <= I64_MAX /\ timestamp_ms <= MAX_UTC_MILLIS

\* C23: a checkpoint whose timestamp is above i64::MAX or above the last
\* date that can be held is processed to the error, whatever its events are,
\* those of other packages included: it has no tuple, enters no batch, and when
\* it is the only checkpoint nothing is written
C23_BadTimestampFailsCheckpoint ==
    \A i \in 1..Len(stream) :
        (~Representable(stream[i].timestamp_ms) /\ processed[i] # NotProcessed) =>
            /\ processed[i] = ProcessErr
            /\ processed[i].values = <<>>
            /\ i \notin inflight
            /\ \A j \in 1..Len(log) : log[j] # i
            /\ Len(stream) = 1 => (offers = <<>> /\ tx = <<>> /\ values = <<>>)

\* process has failed on a checkpoint whose timestamp is above i64::MAX and
\* whose only event is of another package
C23_Witness ==
    /\ Len(stream) = 1
    /\ stream[1].timestamp_ms > I64_MAX
    /\ EventsIn(stream[1]) # {}
    /\ \A e \in EventsIn(stream[1]) : ~Ours(e)
    /\ processed[1] = ProcessErr

\* a status event whose pair has no row, or whose lookup resolves to a row in
\* a terminal status
MissesOrMeetsTerminal(rows, e) ==
    /\ e.kind \in StatusEvents
    /\ \A i \in LatestRows(rows, e) : rows[i].status \in Terminal

PlacedIn(batch) == { k \in 1..Len(batch) : batch[k].event.kind = "Placed" }

IsSkippedEventBatch(batch) ==
    /\ Len(batch) = Len(<<"Cancelled", "Placed", "Cancelled", "Declined", "Placed">>)
    /\ \A i \in 1..Len(batch) :
        batch[i].event.kind =
            <<"Cancelled", "Placed", "Cancelled", "Declined", "Placed">>[i]

\* C24: an event that finds no row of its pair, or a row in a terminal status,
\* does not end the batch: its iteration can complete without an error, the loop
\* goes on with the next tuple of the batch, and every commit that returns Ok
\* has applied all tuples of the batch, so that every Placed event of the batch
\* has its row, those after such an event included
C24_SkipDoesNotEndBatch ==
    /\ (pc = "in_tx" /\ pos < len /\ MissesOrMeetsTerminal(tx, values[pos + 1].event)) =>
        \E o \in ApplyValue(tx, values[pos + 1]) : o.ok
    /\ (Applied /\ MissesOrMeetsTerminal(prev, Event)) =>
        /\ pos <= len
        /\ Value = values[pos]
        /\ len = Len(values)
    /\ (pc = "idle" /\ round >= 1 /\ result.tag = "Ok") => result = Ok(Len(values))
    /\ Len(offers) = round * Cardinality(PlacedIn(values))

\* a batch is committed in which a Cancelled event found no row and a Declined
\* event found a Cancelled row, each followed by a Placed event that has its row
C24_Witness ==
    /\ pc = "idle"
    /\ round = 1
    /\ IsSkippedEventBatch(values)
    /\ result = Ok(Len(values))
    /\ Len(offers) = 2
    /\ offers[1].status = "Cancelled"
    /\ offers[2].status = "Placed"
    /\ offers[2].value = "150"

\* the ids of the rows of a table
Ids(rows) == { rows[i].id : i \in 1..Len(rows) }

\* C25: no step removes a row: the ids in the store after a step include the
\* ids before it, and so do the ids the transaction sees from one iteration of
\* the loop to the next
C25_RowsNeverDeleted ==
    [][ /\ Ids(offers) \subseteq Ids(offers')
        /\ (pc = "in_tx" /\ pc' = "in_tx") => Ids(tx) \subseteq Ids(tx') ]_vars

\* batches with two Placed events and a Cancelled event that changed a row are
\* committed, and the store holds both rows
C25_Witness ==
    /\ pc = "idle"
    /\ result.tag = "Ok"
    /\ Ids(offers) = {1, 2}
    /\ \E i \in 1..Len(offers) : offers[i].status = "Cancelled"

\* the columns of a row that UpdateOffer does not name
CreationColumns(r) ==
    [id |-> r.id, domain_name |-> r.domain_name, buyer |-> r.buyer,
     initial_value |-> r.initial_value, created_at |-> r.created_at]

\* C26: no step changes the id, domain_name, buyer, initial_value or
\* created_at of a row that exists, in the store or inside the transaction,
\* and a row that an iteration adds is the row of a Placed event with
\* initial_value = the event's value: in every state initial_value is the value
\* of the Placed event that created the row
C26_CreationColumnsImmutable ==
    [][ /\ \A i \in 1..Len(offers) :
            i <= Len(offers') /\ CreationColumns(offers'[i]) = CreationColumns(offers[i])
        /\ (pc = "in_tx" /\ pc' = "in_tx") =>
            /\ \A i \in 1..Len(tx) :
                i <= Len(tx') /\ CreationColumns(tx'[i]) = CreationColumns(tx[i])
            /\ \A i \in (Len(tx) + 1)..Len(tx') :
                /\ ev'[1].event.kind = "Placed"
                /\ tx'[i].initial_value = Decimal(ev'[1].event.value)
                /\ tx'[i].created_at = ev'[1].created_at ]_vars

\* a Cancelled event with another value and another timestamp than the Placed
\* event of its row has changed the row: the row's value is the new one, its
\* initial_value and created_at the old ones
C26_Witness ==
    /\ Applied
    /\ Event.kind = "Cancelled"
    /\ \E i \in 1..Len(prev) :
        /\ tx[i] # prev[i]
        /\ tx[i].value # tx[i].initial_value
        /\ tx[i].updated_at # tx[i].created_at
        /\ tx[i].initial_value = prev[i].initial_value

\* the text of the domain names of the decoded events, an invalid byte shown
\* as U+FFFD
LossyText(bytes) ==
    CASE bytes = <<100, 49>> -> "d1"
      [] bytes = <<100, 50>> -> "d2"
      [] bytes = <<100, 255>> -> "d" \o REPLACEMENT_CHARACTER

\* C27: for each of the six kinds, an event of the package under the name of
\* its kind whose payload is the encoding of field values decodes to an event
\* with exactly those values (value and addresses as they were, domain name
\* bytes whose lossy UTF-8 text is that of the encoded bytes), and process
\* gives the tuple of that event; a payload with one field more at the end, or
\* with one field less, is a decode error and process gives no tuple
C27_DecodeInvertsEncode ==
    \A i \in 1..Len(stream) :
        processed[i] # NotProcessed =>
            \A raw \in EventsIn(stream[i]) : \A e \in CodecEvents :
                raw.type_ = TypeTag("0xe4", NameOfKind[e.kind]) =>
                    /\ raw.contents = Encode(e) =>
                        /\ process_event(raw) = SomeEvent(e)
                        /\ convert_domain_name(process_event(raw).event[1].domain_name)
                             = LossyText(e.domain_name)
                        /\ ( /\ EventsIn(stream[i]) = {raw}
                             /\ Len(stream[i].transactions) = 1
                             /\ Representable(stream[i].timestamp_ms) ) =>
                               /\ processed[i].tag = "Ok"
                               /\ Len(processed[i].values) = 1
                               /\ processed[i].values[1].event = e
                    /\ raw.contents \in WithTrailingField(e) \cup WithoutField(e) =>
                        /\ process_event(raw) = DecodeError
                        /\ Representable(stream[i].timestamp_ms) =>
                             processed[i] = ProcessPanic

\* process has run on a checkpoint whose only event is the encoding of an
\* Accepted event with a domain name that is not UTF-8 and a value of three
\* bytes, and has given its tuple
C27_Witness ==
    /\ Len(stream) = 1
    /\ processed[1].tag = "Ok"
    /\ Len(processed[1].values) = 1
    /\ processed[1].values[1].event =
         [kind |-> "Accepted", domain_name |-> <<100, 255>>, owner |-> "0xo1",
          buyer |-> "0xb2", value |-> 70000]
    /\ \E raw \in EventsIn(stream[1]) :
         raw.contents = Encode(processed[1].values[1].event)

\* the events of one transaction that decode to the given offer event
EmittedBy(transaction, e) ==
    { k \in 1..Len(transaction.events) :
        process_event(transaction.events[k]) = SomeEvent(e) }

\* C28: every value of a processed checkpoint has the digest of a transaction
\* of the checkpoint that holds an event decoding to the value's event, and
\* created_at = the checkpoint's timestamp; two values of one checkpoint have
\* the same created_at, also when their digests differ
C28_DigestOfTransactionOneTimestamp ==
    \A i \in 1..Len(stream) :
        processed[i].tag = "Ok" =>
            /\ \A k \in 1..Len(processed[i].values) :
                /\ processed[i].values[k].created_at = stream[i].timestamp_ms
                /\ \E t \in 1..Len(stream[i].transactions) :
                    /\ stream[i].transactions[t].digest = processed[i].values[k].tx_digest
                    /\ EmittedBy(stream[i].transactions[t],
                                 processed[i].values[k].event) # {}
            /\ \A k, m \in 1..Len(processed[i].values) :
                processed[i].values[k].created_at = processed[i].values[m].created_at

\* process has run on a checkpoint with a Cancelled event in one transaction
\* and a Placed event in another: the two values differ in tx_digest
C28_Witness ==
    /\ Len(stream) = 1
    /\ processed[1].tag = "Ok"
    /\ Len(processed[1].values) = 2
    /\ processed[1].values[1].event.kind = "Cancelled"
    /\ processed[1].values[2].event.kind = "Placed"
    /\ processed[1].values[1].tx_digest # processed[1].values[2].tx_digest
    /\ processed[1].values[1].created_at = processed[1].values[2].created_at

\* the tables that applying the tuples one after the other, without a failure,
\* can make of the given tables
RECURSIVE AppliedInOrder(_, _)
AppliedInOrder(tables, tuples) ==
    IF tuples = <<>> THEN tables
    ELSE AppliedInOrder(
             UNION { { o.rows : o \in { x \in ApplyValue(rows, Head(tuples)) : x.ok } } :
                       rows \in tables },
             Tail(tuples))

\* every checkpoint of the stream is processed to values and committed
AllCommitted ==
    /\ pc = "idle"
    /\ inflight = {}
    /\ \A i \in 1..Len(stream) :
        processed[i].tag = "Ok" /\ \E j \in 1..Len(log) : log[j] = i

\* C29: process changes no row (as long as no batch has been handed to commit
\* the store is as it was), what it has made of a checkpoint is what it makes
\* of it when run again, and the order in which the checkpoints are processed
\* has no effect on what is written: once all checkpoints are committed the
\* store is what the tuples of the stream, in stream order, make of the empty
\* store
C29_ExtractionOrderIsImmaterial ==
    /\ (log = <<>> /\ inflight = {}) => (offers = <<>> /\ tx = <<>>)
    /\ \A i \in 1..Len(stream) :
        processed[i] # NotProcessed => processed[i] = process(stream[i])
    /\ AllCommitted =>
        offers \in AppliedInOrder({ <<>> },
                       Concat(processed, [ i \in 1..Len(stream) |-> i ]))

\* C30: a Cancelled event for a pair that has rows changes one row, one of the
\* most recently updated rows of the pair, and of that row only status, value,
\* updated_at and last_tx_digest; the row keeps its owner, no row is added, and
\* every other row (of other buyers, of other domains, older rows of the pair)
\* stays as it was
C30_CancelledChangesOneRow ==
    (Applied /\ Event.kind = "Cancelled" /\ PairRows(prev, Event) # {}) =>
        /\ Len(tx) = Len(prev)
        /\ \E i \in LatestRows(prev, Event) :
            /\ tx[i] = [ prev[i] EXCEPT !.status = "Cancelled",
                                        !.value = Decimal(Event.value),
                                        !.updated_at = Value.created_at,
                                        !.last_tx_digest = Value.tx_digest ]
            /\ tx[i].owner = prev[i].owner
            /\ \A j \in 1..Len(prev) : j # i => tx[j] = prev[j]

\* a Cancelled event was applied to a pair with two rows, the older one Placed:
\* the newer row is Cancelled and the older one still Placed
C30_Witness ==
    /\ Applied
    /\ Event.kind = "Cancelled"
    /\ Cardinality(PairRows(prev, Event)) = 2
    /\ \E i, j \in PairRows(prev, Event) :
        /\ prev[j].updated_at < prev[i].updated_at
        /\ prev[j].status = "Placed"
        /\ prev[i].status = "Placed"
        /\ tx[i].status = "Cancelled"
        /\ tx[j] = prev[j]

\* the Placed events among the first k tuples of a batch
PlacedUpTo(batch, k) == { j \in PlacedIn(batch) : j <= k }

\* C31: each Placed event the loop applies adds one row, the event's, also
\* when its pair has rows already, and no other event adds one: inside the
\* transaction the number of rows is that of the store plus the Placed events
\* applied so far, and the store holds as many rows as the committed
\* deliveries of the batch hold Placed events
C31_RowsCountPlacedEvents ==
    /\ (Applied /\ Event.kind = "Placed") =>
        /\ Len(tx) = Len(prev) + 1
        /\ tx[Len(tx)].buyer = Event.address
        /\ tx[Len(tx)].domain_name = DomainText(Event.domain_name)
        /\ tx[Len(tx)].last_tx_digest = Value.tx_digest
    /\ (Applied /\ Event.kind # "Placed") => Len(tx) = Len(prev)
    /\ pc = "in_tx" =>
        Len(tx) = Len(offers) + Cardinality(PlacedUpTo(values, pos))
    /\ pc = "idle" => Len(offers) = round * Cardinality(PlacedUpTo(values, Len(values)))

\* a batch with a Placed event is committed twice: the second delivery added
\* a second row for the pair next to the first
C31_Witness ==
    /\ pc = "idle"
    /\ round = 2
    /\ result = Ok(Len(values))
    /\ Cardinality(PlacedIn(values)) = 1
    /\ Len(offers) = 2
    /\ offers[1].buyer = offers[2].buyer
    /\ offers[1].domain_name = offers[2].domain_name

\* C32: in the store and inside the transaction every row has updated_at >=
\* created_at, and a row that an event has just created or changed has the
\* updated_at and the last_tx_digest of that event's tuple
C32_UpdatedNotBeforeCreated ==
    /\ \A rows \in {offers, tx} :
        \A i \in 1..Len(rows) : rows[i].updated_at >= rows[i].created_at
    /\ Applied =>
        \A i \in 1..Len(tx) :
            (i > Len(prev) \/ tx[i] # prev[i]) =>
                /\ tx[i].updated_at = Value.created_at
                /\ tx[i].last_tx_digest = Value.tx_digest

\* C33: a commit that ends well returns the number of tuples of its batch,
\* whatever the loop did to the rows; commit of no tuple returns 0 and opens
\* no transaction; a commit that fails returns the error, one that is
\* interrupted returns nothing, and neither a count
C33_CommitReturnsBatchLength ==
    [][ /\ (pc = "in_tx" /\ pc' = "idle" /\ result'.tag = "Ok") =>
            /\ result' = Ok(len)
            /\ pos = len
            /\ len > 0
        /\ (pc = "idle" /\ pc' = "idle") =>
            /\ result' = Ok(0)
            /\ offers' = offers
            /\ tx' = tx
        /\ (pc = "in_tx" /\ pc' = "idle" /\ result'.tag # "Ok") =>
            /\ result' \in {Err, NoResult}
            /\ offers' = offers
        /\ (pc = "idle" /\ pc' = "in_tx") => result' = NoResult ]_vars

\* a commit of two tuples has returned 2 and the store is empty: both events
\* were passed over
C33_Witness ==
    /\ pc = "idle"
    /\ result = Ok(2)
    /\ n = 2
    /\ offers = <<>>

\* the row the capture handler is to make of a decoded offer event
ExpectedRow(e, tx_digest, created_at) ==
    IF e.kind \in {"Accepted", "Declined", "MakeCounterOffer"}
    THEN [domain_name |-> LossyText(e.domain_name), address |-> e.buyer,
          owner |-> e.owner, value |-> ToString(e.value),
          created_at |-> created_at, tx_digest |-> tx_digest]
    ELSE [domain_name |-> LossyText(e.domain_name), address |-> EventBuyer(e),
          value |-> ToString(e.value),
          created_at |-> created_at, tx_digest |-> tx_digest]

\* the rows of the decoded events of one kind of a checkpoint, in the order of
\* the flattened (transaction, event) list
ExpectedList(checkpoint, kind) ==
    LET of_kind == SelectSeq(DecodedOf(checkpoint),
                       LAMBDA x : process_event(x.event).event[1].kind = kind)
    IN  [ k \in 1..Len(of_kind) |->
            ExpectedRow(process_event(of_kind[k].event).event[1], of_kind[k].digest,
                        checkpoint.timestamp_ms) ]

\* C34: what the capture handler's process has made of a checkpoint with a
\* representable timestamp is the error, and no value, when an event of the
\* checkpoint fails to decode, and otherwise one value whose six lists hold,
\* each for its kind, the rows of the decoded events in checkpoint order, so
\* that every decoded event is in one list and the lists hold nothing else
C34_CaptureOneValuePerCheckpoint ==
    \A i \in 1..Len(stream) :
        (processed[i] # NotProcessed /\ Representable(stream[i].timestamp_ms)) =>
            IF \E e \in EventsIn(stream[i]) : Malformed(e)
            THEN processed[i] = ProcessErr
            ELSE /\ processed[i].tag = "Ok"
                 /\ Len(processed[i].values) = 1
                 /\ LET value == processed[i].values[1]
                    IN  /\ value.placed = ExpectedList(stream[i], "Placed")
                        /\ value.cancelled = ExpectedList(stream[i], "Cancelled")
                        /\ value.accepted = ExpectedList(stream[i], "Accepted")
                        /\ value.declined = ExpectedList(stream[i], "Declined")
                        /\ value.make_counter_offer =
                             ExpectedList(stream[i], "MakeCounterOffer")
                        /\ value.accept_counter_offer =
                             ExpectedList(stream[i], "AcceptCounterOffer")
                        /\ Len(value.placed) + Len(value.cancelled) + Len(value.accepted)
                             + Len(value.declined) + Len(value.make_counter_offer)
                             + Len(value.accept_counter_offer)
                             = Len(DecodedOf(stream[i]))
                        /\ value.checkpoint = i

\* the capture handler's process has run on a checkpoint with a Placed event
\* in one transaction and a Cancelled event in the next: its one value has one
\* row in placed and one in cancelled
C34_Witness ==
    /\ Len(stream) = 1
    /\ Len(stream[1].transactions) = 2
    /\ processed[1].tag = "Ok"
    /\ Len(processed[1].values) = 1
    /\ Len(processed[1].values[1].placed) = 1
    /\ Len(processed[1].values[1].cancelled) = 1
    /\ processed[1].values[1].placed[1].tx_digest = "txA"
    /\ processed[1].values[1].cancelled[1].tx_digest = "txB"
====
